---- MODULE Spec2Model ----
(***************************************************************************)
(* Model of the ensemble docking console (pyCADD/Dock/ensemble.py) and of  *)
(* the parallel task runner (pyCADD/utils/tool.py).                        *)
(*                                                                         *)
(* Two specifications share the module:                                    *)
(*   Spec        the console: one action per console method, the runner    *)
(*               call inside a method summarised by the set of items whose *)
(*               operation succeeded;                                      *)
(*   RunnerSpec  one call of multiprocssing_run, step by step: the         *)
(*               submitting loop, the pool's workers, the result handler.  *)
(*                                                                         *)
(* A string is a sequence of tokens; the comma is a token of its own, so   *)
(* that joining fields with ',' and splitting a line on ',' are computed   *)
(* and not assumed to be inverse to each other.                            *)
(***************************************************************************)
EXTENDS Integers, Sequences, FiniteSets, TLC

VARIABLES
    \* ---- _Console fields (ensemble.py:72-86)
    pdbfile_list, minimized_file_list, grid_file_list, ligand_path_list,
    ligand_file_list, mapping, dock_file_list, docking_failed_list,
    \* ---- result/docking_failed_<precision>.csv, one value per precision
    ledger,
    \* ---- the last console call: method, precision, exception, write
    call,
    \* ---- the number of console calls made
    ncalls,
    \* ---- history: shape of the sequence of calls made so far, and the
    \*      triples its batch runs recorded as failed
    batch,
    \* ---- one call of multiprocssing_run (tool.py:112-148)
    r_items, r_k, r_timeout, r_pc, r_next, r_taskq, r_workers, r_outq,
    r_returns, r_completed, r_spawned, r_err,
    \* ---- multiprocessing.cpu_count() of the machine (tool.py:23)
    cpu_count,
    \* ---- one call of download_pdb_list (tool.py:179-196): its arguments, the
    \*      answers of the server, its position, its threads, the save_dir
    dl_pdblist, dl_overwrite, dl_status, dl_pc, dl_threads, dl_joined, dl_files,
    \* ---- one call of split_ligand (ensemble.py:11-66): its arguments, its
    \*      position, its two lists, the files of save_dir
    sl_structures, sl_overwrite, sl_exists, sl_pc, sl_label_list,
    sl_ligand_path_list, sl_written, sl_label_csv,
    \* ---- UI_VSW (VSW/__main__.py): its attributes, the registry, the last
    \*      choice and what came of it
    vsw_gene, vsw_database, vsw_inputfile, vsw_genelist, vsw_database_list,
    vsw_pc, vsw_last,
    \* ---- UI_Dance (Dance/__main__.py): its attributes, the last choice and
    \*      what came of it
    dn_merged, dn_dancer, dn_pc, dn_last

consoleVars == <<pdbfile_list, minimized_file_list, grid_file_list,
                 ligand_path_list, ligand_file_list, mapping, dock_file_list,
                 docking_failed_list, ledger, call, ncalls, batch>>

runnerVars == <<r_items, r_k, r_timeout, r_pc, r_next, r_taskq, r_workers,
                r_outq, r_returns, r_completed, r_spawned, r_err, cpu_count>>

downloadVars == <<dl_pdblist, dl_overwrite, dl_status, dl_pc, dl_threads,
                  dl_joined, dl_files>>

splitVars == <<sl_structures, sl_overwrite, sl_exists, sl_pc, sl_label_list,
               sl_ligand_path_list, sl_written, sl_label_csv>>

vswVars == <<vsw_gene, vsw_database, vsw_inputfile, vsw_genelist,
             vsw_database_list, vsw_pc, vsw_last>>

danceVars == <<dn_merged, dn_dancer, dn_pc, dn_last>>

vars == <<consoleVars, runnerVars, downloadVars, splitVars, vswVars, danceVars>>

----------------------------------------------------------------------------
\* Bounds of the model

\* receptor / internal-ligand pairs of the input file
NumPairs == 2
\* structures in an external ligand file
MaxLigands == 2
\* console calls in one run
MaxCalls == 6
\* items of one console batch whose operation fails, unless all of them fail
MaxFailures == 1
\* items handed to one runner call
MaxItems == 2
\* worker count of one runner call
MaxWorkers == 2
\* calls of ligand_split and multi_extract_data on one console
MaxExtractCalls == 4
\* structures of the file handed to one split_ligand call
MaxStructures == 2
\* identifiers handed to one download_pdb_list call
MaxIds == 2
\* logical cores of the machine
MaxCores == 6
\* lines of a failure ledger left in the working directory by earlier runs
MaxLines == 2

----------------------------------------------------------------------------
\* Python's None and a present value

None == [none |-> TRUE]

Some(x) == [val |-> x]

IsNone(o) == "none" \in DOMAIN o

Range(s) == {s[i] : i \in DOMAIN s}

\* list(set): some fixed order of the elements, each once
RECURSIVE SetToSeq(_)
SetToSeq(S) ==
    IF S = {} THEN <<>>
    ELSE LET x == CHOOSE y \in S : TRUE
         IN  <<x>> \o SetToSeq(S \ {x})

\* the sub-list of items at the indices in ok, in list order
RECURSIVE SelectAt(_, _, _)
SelectAt(items, ok, i) ==
    IF i > Len(items) THEN <<>>
    ELSE (IF i \in ok THEN <<items[i]>> ELSE <<>>) \o SelectAt(items, ok, i + 1)

----------------------------------------------------------------------------
\* Strings

Comma == ","

\* f'{a},{b},{c}'
Join3(a, b, c) == a \o <<Comma>> \o b \o <<Comma>> \o c

\* line.split(','): the fields between the commas, in order
RECURSIVE SplitFrom(_, _, _)
SplitFrom(line, i, cur) ==
    IF i > Len(line) THEN <<cur>>
    ELSE IF line[i] = Comma THEN <<cur>> \o SplitFrom(line, i + 1, <<>>)
    ELSE SplitFrom(line, i + 1, Append(cur, line[i]))

Split(line) == SplitFrom(line, 1, <<>>)

----------------------------------------------------------------------------
\* Inputs

Precisions == {"SP", "XP"}

Titles == {<<"A">>, <<"A", Comma, "B">>}

\* str(n) of a small number
Digit(n) == <<"0", "1", "2", "3", "4", "5", "6", "7", "8", "9">>[n + 1]

\* input_file.get_pairs_list(): (pdbid, ligand id) pairs
pairs_list == [i \in 1..NumPairs |-> << <<"R", Digit(i)>>, <<"L", Digit(i)>> >>]

\* external ligand files: the s_m_title of each structure, in file order
LigandLibraries == UNION {[1..n -> Titles] : n \in 0..MaxLigands}

\* the exceptions a console call ends with
NoErr == "none"
ErrNoMinimized == "No minimized file found. Please run minimize first."
ErrNoLigandSplit == "Please run ligand_split first."
ErrNoGrid == "Please run grid_generate first."
ErrNoMapping == "Please run creat_mapping first."
ErrTypeError == "TypeError"
ErrValueError == "ValueError"
ErrAttributeError == "AttributeError"
ErrKeyError == "KeyError"

----------------------------------------------------------------------------
\* Collaborators of the console: the shape of what they return

\* PDBFile of one (pdbid, ligand id) pair, as downloaded or reduced to one chain
PDBFile(pair, single) == [pdbid |-> pair[1], ligand |-> pair[2], single_chain |-> single]

\* minimize(pdbfile): the minimized structure of that receptor
MinimizedFile(f) == [pdbid |-> f.pdbid, ligand |-> f.ligand]

\* grid_generate(minimized_file): the grid of that receptor
GridFile(m) == [pdbid |-> m.pdbid, ligand |-> m.ligand, internal_ligand |-> m.ligand]

\* LigandFile(path): ligand_name is the file name without its extension
LigandFile(path) == [ligand_name |-> path]

\* dock(mapping_item): the result file of that pair
DockResultFile(item) ==
    [pdbid |-> item[1].pdbid,
     internal_ligand_name |-> item[1].internal_ligand,
     docking_ligand_name |-> item[2].ligand_name]

\* dock applied to every item of a mapping
DockResults(m) == [i \in DOMAIN m |-> DockResultFile(m[i])]

\* _multiprocssing_run as the console sees it: of the results the operation
\* has for the items, those of the items it succeeded on (ok: their indices)
RunnerReturns(results, ok) == SelectAt(results, ok, 1)

----------------------------------------------------------------------------
\* split_ligand (ensemble.py:11-66)

\* the name made of the title alone
StNameTitleOnly(index, title) == title

\* st_name = f"{index}-{structure.property['s_m_title']}", index counted from 0
StName(index, title) == <<Digit(index), "-">> \o title

\* the returned ligand_path_list: one path per structure, in file order
\* (a path is identified with the st_name it was built from)
split_ligand(library) == [i \in 1..Len(library) |-> StName(i - 1, library[i])]

----------------------------------------------------------------------------
\* Failure ledger

\* tuple(line.split(',')) unpacked into exactly three names
Malformed(line) == Len(Split(line)) # 3

\* _Console._get_failed_list: None, the triples, or ValueError
FailedListRaises(file) ==
    /\ ~IsNone(file)
    /\ \E i \in DOMAIN file.val : Malformed(file.val[i])

_get_failed_list(file) ==
    IF IsNone(file) THEN None
    ELSE Some([i \in DOMAIN file.val |-> Split(file.val[i])])

\* the skip test matching a failed record on receptor and ligand name alone
RECURSIVE MapLigandsAnyInternal(_, _, _, _)
MapLigandsAnyInternal(grid_file, ligands, failed, j) ==
    IF j > Len(ligands) THEN <<>>
    ELSE (IF \E t \in Range(failed) :
                t[1] = grid_file.pdbid /\ t[3] = ligands[j].ligand_name
          THEN <<>>
          ELSE << <<grid_file, ligands[j]>> >>)
         \o MapLigandsAnyInternal(grid_file, ligands, failed, j + 1)

\* _Console._creat_mapping
RECURSIVE MapLigands(_, _, _, _)
MapLigands(grid_file, ligands, failed, j) ==
    IF j > Len(ligands) THEN <<>>
    ELSE (IF <<grid_file.pdbid, grid_file.ligand, ligands[j].ligand_name>> \in Range(failed)
          THEN <<>>
          ELSE << <<grid_file, ligands[j]>> >>)
         \o MapLigands(grid_file, ligands, failed, j + 1)

RECURSIVE MapGrids(_, _, _, _)
MapGrids(grids, ligands, failed, i) ==
    IF i > Len(grids) THEN <<>>
    ELSE MapLigands(grids[i], ligands, failed, 1) \o MapGrids(grids, ligands, failed, i + 1)

\* the two loops nested the other way round: ligands outside, grids inside
_creat_mapping_ligand_major(grids, ligands, failed_list) ==
    LET failed == IF IsNone(failed_list) THEN <<>> ELSE failed_list.val
        m == Len(grids)
        all == [k \in 1..(m * Len(ligands)) |->
                   <<grids[((k - 1) % m) + 1], ligands[((k - 1) \div m) + 1]>>]
        Kept(item) == <<item[1].pdbid, item[1].ligand, item[2].ligand_name>> \notin Range(failed)
    IN  SelectSeq(all, Kept)

_creat_mapping(grids, ligands, failed_list) ==
    LET failed == IF IsNone(failed_list) THEN <<>> ELSE failed_list.val
    IN  MapGrids(grids, ligands, failed, 1)

\* multi_dock, the failed check (ensemble.py:315-317)
TotalResult(m) ==
    [i \in DOMAIN m |-> Join3(m[i][1].pdbid, m[i][1].internal_ligand, m[i][2].ligand_name)]

SuccessResult(d) ==
    [i \in DOMAIN d |-> Join3(d[i].pdbid, d[i].internal_ligand_name, d[i].docking_ligand_name)]

\* the failed check with the difference dropped
FailedCheckAll(total_result, success_result) ==
    SetToSeq(Range(total_result))

FailedCheck(total_result, success_result) ==
    SetToSeq(Range(total_result) \ Range(success_result))

\* multi_dock, the ledger write (ensemble.py:319-321)
WritesLedger(failed) == Len(failed) # 0

\* the ledger write opening the file for append
WriteLedgerAppend(files, precision, failed) ==
    IF WritesLedger(failed)
    THEN [files EXCEPT ![precision] =
            IF IsNone(@) THEN Some(failed) ELSE Some(@.val \o failed)]
    ELSE files

\* the ledger write going to one file whatever the precision
WriteLedgerShared(files, precision, failed) ==
    IF WritesLedger(failed)
    THEN [q \in DOMAIN files |-> Some(failed)]
    ELSE files

WriteLedger(files, precision, failed) ==
    IF WritesLedger(failed)
    THEN [files EXCEPT ![precision] = Some(failed)]
    ELSE files

----------------------------------------------------------------------------
\* History kept for the properties

\* (receptor_id, internal_ligand_id, ligand_name) of a mapping item
Triple(item) == <<item[1].pdbid, item[1].internal_ligand, item[2].ligand_name>>

Line(item) == Join3(item[1].pdbid, item[1].internal_ligand, item[2].ligand_name)

Call(op, p, err) == [op |-> op, p |-> p, err |-> err, wrote |-> FALSE]

\* one more console call
Counted ==
    /\ ncalls < MaxCalls
    /\ ncalls' = ncalls + 1

NoBatch == [shape |-> "none", p |-> "-", failed |-> {}]

Broken == [shape |-> "broken", p |-> "-", failed |-> {}]

\* the triples of the submitted items whose line is in the list written
Recorded(items, failed) ==
    {Triple(items[i]) : i \in {j \in DOMAIN items : Line(items[j]) \in Range(failed)}}

\* whether the calls so far are batch runs creat_mapping(p); multi_dock(p)
\* at one p, and the triples those runs left without a result
BatchAfter(op, p, err, lost) ==
    IF op \notin {"creat_mapping", "multi_dock"} \/ err # NoErr
    THEN (IF batch.shape = "none" THEN batch ELSE Broken)
    ELSE IF op = "creat_mapping"
    THEN (IF batch.shape = "none" \/ (batch.shape = "docked" /\ batch.p = p)
          THEN [batch EXCEPT !.shape = "mapped", !.p = p] ELSE Broken)
    ELSE (IF batch.shape = "mapped" /\ batch.p = p
          THEN [shape |-> "docked", p |-> p, failed |-> batch.failed \cup lost]
          ELSE Broken)

----------------------------------------------------------------------------
\* The console

ConsoleInit ==
    /\ pdbfile_list = None
    /\ minimized_file_list = None
    /\ grid_file_list = None
    /\ ligand_path_list = None
    /\ ligand_file_list = None
    /\ mapping = None
    /\ dock_file_list = None
    /\ docking_failed_list = None
    /\ ledger = [p \in Precisions |-> None]
    /\ call = Call("__init__", "-", NoErr)
    /\ ncalls = 0
    /\ batch = NoBatch

\* a new console over the same working directory: the files stay
__init__ ==
    /\ pdbfile_list' = None
    /\ minimized_file_list' = None
    /\ grid_file_list' = None
    /\ ligand_path_list' = None
    /\ ligand_file_list' = None
    /\ mapping' = None
    /\ dock_file_list' = None
    /\ docking_failed_list' = None
    /\ call' = Call("__init__", "-", NoErr)
    /\ batch' = BatchAfter("__init__", "-", NoErr, {})
    /\ UNCHANGED ledger
    /\ Counted
    /\ UNCHANGED <<runnerVars, downloadVars, splitVars, vswVars, danceVars>>

download_all_pdb ==
    /\ pdbfile_list' = Some([i \in DOMAIN pairs_list |-> PDBFile(pairs_list[i], FALSE)])
    /\ call' = Call("download_all_pdb", "-", NoErr)
    /\ batch' = BatchAfter("download_all_pdb", "-", NoErr, {})
    /\ UNCHANGED <<minimized_file_list, grid_file_list, ligand_path_list,
                   ligand_file_list, mapping, dock_file_list,
                   docking_failed_list, ledger>>
    /\ Counted
    /\ UNCHANGED <<runnerVars, downloadVars, splitVars, vswVars, danceVars>>

keep_single_chain ==
    /\ pdbfile_list' = Some([i \in DOMAIN pairs_list |-> PDBFile(pairs_list[i], TRUE)])
    /\ call' = Call("keep_single_chain", "-", NoErr)
    /\ batch' = BatchAfter("keep_single_chain", "-", NoErr, {})
    /\ UNCHANGED <<minimized_file_list, grid_file_list, ligand_path_list,
                   ligand_file_list, mapping, dock_file_list,
                   docking_failed_list, ledger>>
    /\ Counted
    /\ UNCHANGED <<runnerVars, downloadVars, splitVars, vswVars, danceVars>>

\* download_all_pdb, keep_single_chain when asked, then the runner
multi_minimize(keep, ok) ==
    LET files == [i \in DOMAIN pairs_list |-> PDBFile(pairs_list[i], keep)]
    IN  /\ pdbfile_list' = Some(files)
        /\ minimized_file_list' = Some(RunnerReturns([i \in DOMAIN files |-> MinimizedFile(files[i])], ok))
        /\ call' = Call("multi_minimize", "-", NoErr)
        /\ batch' = BatchAfter("multi_minimize", "-", NoErr, {})
        /\ UNCHANGED <<grid_file_list, ligand_path_list, ligand_file_list,
                       mapping, dock_file_list, docking_failed_list, ledger>>
        /\ Counted
        /\ UNCHANGED <<runnerVars, downloadVars, splitVars, vswVars, danceVars>>

\* the exception multi_grid_generate ends with (ensemble.py:228-229)
multi_grid_generate_raises ==
    IF IsNone(minimized_file_list) THEN ErrNoMinimized ELSE NoErr

multi_grid_generate(ok) ==
    /\ IF multi_grid_generate_raises # NoErr
       THEN /\ ok = {}
            /\ call' = Call("multi_grid_generate", "-", ErrNoMinimized)
            /\ batch' = BatchAfter("multi_grid_generate", "-", ErrNoMinimized, {})
            /\ UNCHANGED grid_file_list
       ELSE /\ ok \subseteq DOMAIN minimized_file_list.val
            /\ grid_file_list' = Some(RunnerReturns([i \in DOMAIN minimized_file_list.val |->
                                        GridFile(minimized_file_list.val[i])], ok))
            /\ call' = Call("multi_grid_generate", "-", NoErr)
            /\ batch' = BatchAfter("multi_grid_generate", "-", NoErr, {})
    /\ UNCHANGED <<pdbfile_list, minimized_file_list, ligand_path_list,
                   ligand_file_list, mapping, dock_file_list,
                   docking_failed_list, ledger>>
    /\ Counted
    /\ UNCHANGED <<runnerVars, downloadVars, splitVars, vswVars, danceVars>>

minimized_split ==
    LET err == multi_grid_generate_raises
    IN  /\ call' = Call("minimized_split", "-", err)
        /\ batch' = BatchAfter("minimized_split", "-", err, {})
        /\ UNCHANGED <<pdbfile_list, minimized_file_list, grid_file_list,
                       ligand_path_list, ligand_file_list, mapping,
                       dock_file_list, docking_failed_list, ledger>>
        /\ Counted
        /\ UNCHANGED <<runnerVars, downloadVars, splitVars, vswVars, danceVars>>

ligand_split(external_ligand_file) ==
    /\ ligand_path_list' = Some(split_ligand(external_ligand_file))
    /\ call' = Call("ligand_split", "-", NoErr)
    /\ batch' = BatchAfter("ligand_split", "-", NoErr, {})
    /\ UNCHANGED <<pdbfile_list, minimized_file_list, grid_file_list,
                   ligand_file_list, mapping, dock_file_list,
                   docking_failed_list, ledger>>
    /\ Counted
    /\ UNCHANGED <<runnerVars, downloadVars, splitVars, vswVars, danceVars>>

\* creat_mapping with the two checks' messages exchanged
creat_mapping_raises_swapped(precision) ==
    IF IsNone(ligand_path_list) THEN ErrNoGrid
    ELSE IF IsNone(grid_file_list) THEN ErrNoLigandSplit
    ELSE IF FailedListRaises(ledger[precision]) THEN ErrValueError
    ELSE NoErr

\* creat_mapping taking every ledger line as it comes
creat_mapping_raises_lenient(precision) ==
    IF IsNone(ligand_path_list) THEN ErrNoLigandSplit
    ELSE IF IsNone(grid_file_list) THEN ErrNoGrid
    ELSE NoErr

\* the exception creat_mapping ends with (ensemble.py:279-285)
creat_mapping_raises(precision) ==
    IF IsNone(ligand_path_list) THEN ErrNoLigandSplit
    ELSE IF IsNone(grid_file_list) THEN ErrNoGrid
    ELSE IF FailedListRaises(ledger[precision]) THEN ErrValueError
    ELSE NoErr

\* creat_mapping building the ligand files before it checks the grids
creat_mapping_files_first(precision) ==
    LET err == creat_mapping_raises(precision)
        files == [i \in DOMAIN ligand_path_list.val |-> LigandFile(ligand_path_list.val[i])]
    IN  /\ ligand_file_list' =
              IF err = ErrNoLigandSplit THEN ligand_file_list
              ELSE Some(files)
        /\ mapping' =
              IF err # NoErr THEN mapping
              ELSE Some(_creat_mapping(grid_file_list.val, files,
                                       _get_failed_list(ledger[precision])))
        /\ call' = Call("creat_mapping", precision, err)
        /\ batch' = BatchAfter("creat_mapping", precision, err, {})
        /\ UNCHANGED <<pdbfile_list, minimized_file_list, grid_file_list,
                       ligand_path_list, dock_file_list, docking_failed_list,
                       ledger>>
        /\ Counted
        /\ UNCHANGED <<runnerVars, downloadVars, splitVars, vswVars, danceVars>>

\* creat_mapping keeping the ligand files an earlier call built
creat_mapping_stale_files(precision) ==
    LET err == creat_mapping_raises(precision)
        files == IF IsNone(ligand_file_list)
                 THEN [i \in DOMAIN ligand_path_list.val |-> LigandFile(ligand_path_list.val[i])]
                 ELSE ligand_file_list.val
    IN  /\ ligand_file_list' =
              IF err \in {ErrNoLigandSplit, ErrNoGrid} THEN ligand_file_list
              ELSE Some(files)
        /\ mapping' =
              IF err # NoErr THEN mapping
              ELSE Some(_creat_mapping(grid_file_list.val, files,
                                       _get_failed_list(ledger[precision])))
        /\ call' = Call("creat_mapping", precision, err)
        /\ batch' = BatchAfter("creat_mapping", precision, err, {})
        /\ UNCHANGED <<pdbfile_list, minimized_file_list, grid_file_list,
                       ligand_path_list, dock_file_list, docking_failed_list,
                       ledger>>
        /\ Counted
        /\ UNCHANGED <<runnerVars, downloadVars, splitVars, vswVars, danceVars>>

creat_mapping(precision) ==
    LET err == creat_mapping_raises(precision)
        files == [i \in DOMAIN ligand_path_list.val |-> LigandFile(ligand_path_list.val[i])]
    IN  /\ ligand_file_list' =
              IF err \in {ErrNoLigandSplit, ErrNoGrid} THEN ligand_file_list
              ELSE Some(files)
        /\ mapping' =
              IF err # NoErr THEN mapping
              ELSE Some(_creat_mapping(grid_file_list.val, files,
                                       _get_failed_list(ledger[precision])))
        /\ call' = Call("creat_mapping", precision, err)
        /\ batch' = BatchAfter("creat_mapping", precision, err, {})
        /\ UNCHANGED <<pdbfile_list, minimized_file_list, grid_file_list,
                       ligand_path_list, dock_file_list, docking_failed_list,
                       ledger>>
        /\ Counted
        /\ UNCHANGED <<runnerVars, downloadVars, splitVars, vswVars, danceVars>>

\* the exception multi_dock ends with before it submits (ensemble.py:304-310)
multi_dock_raises ==
    IF IsNone(grid_file_list) \/ IsNone(ligand_file_list) THEN ErrTypeError
    ELSE IF IsNone(mapping) THEN ErrNoMapping
    ELSE NoErr

multi_dock(precision, ok) ==
    LET err == multi_dock_raises
    IN  /\ IF err # NoErr
           THEN /\ ok = {}
                /\ call' = Call("multi_dock", precision, err)
                /\ UNCHANGED <<dock_file_list, docking_failed_list, ledger>>
           ELSE LET results == RunnerReturns(DockResults(mapping.val), ok)
                    failed == FailedCheck(TotalResult(mapping.val), SuccessResult(results))
                IN  /\ ok \subseteq DOMAIN mapping.val
                    /\ dock_file_list' = Some(results)
                    /\ docking_failed_list' = Some(failed)
                    /\ ledger' = WriteLedger(ledger, precision, failed)
                    /\ call' = [Call("multi_dock", precision, NoErr)
                                  EXCEPT !.wrote = WritesLedger(failed)]
        /\ batch' = BatchAfter("multi_dock", precision, err,
                                IF err = NoErr
                                THEN Recorded(mapping.val,
                                       FailedCheck(TotalResult(mapping.val),
                                         SuccessResult(RunnerReturns(DockResults(mapping.val), ok))))
                                ELSE {})
        /\ UNCHANGED <<pdbfile_list, minimized_file_list, grid_file_list,
                       ligand_path_list, ligand_file_list, mapping>>
        /\ Counted
        /\ UNCHANGED <<runnerVars, downloadVars, splitVars, vswVars, danceVars>>

\* the result files multi_extract_data expects when no docking ran in memory
\* the inner loop without the skip of the failed records
RECURSIVE ExpectNamesAll(_, _, _, _)
ExpectNamesAll(pair, names, failed, j) ==
    IF j > Len(names) THEN <<>>
    ELSE <<[pdbid |-> pair[1], internal_ligand_name |-> pair[2],
            docking_ligand_name |-> names[j]]>>
         \o ExpectNamesAll(pair, names, failed, j + 1)

RECURSIVE ExpectNames(_, _, _, _)
ExpectNames(pair, names, failed, j) ==
    IF j > Len(names) THEN <<>>
    ELSE (IF <<pair[1], pair[2], names[j]>> \in Range(failed)
          THEN <<>>
          ELSE <<[pdbid |-> pair[1], internal_ligand_name |-> pair[2],
                  docking_ligand_name |-> names[j]]>>)
         \o ExpectNames(pair, names, failed, j + 1)

RECURSIVE ExpectPairs(_, _, _, _)
ExpectPairs(pairs, names, failed, i) ==
    IF i > Len(pairs) THEN <<>>
    ELSE ExpectNames(pairs[i], names, failed, 1) \o ExpectPairs(pairs, names, failed, i + 1)

\* the exception multi_extract_data ends with (ensemble.py:327-345):
\* "in _failed_list" is evaluated, on None too, once a pair meets a ligand
multi_extract_data_raises(precision) ==
    IF ~IsNone(dock_file_list) THEN NoErr
    ELSE IF IsNone(ligand_path_list) THEN ErrNoLigandSplit
    ELSE IF FailedListRaises(ledger[precision]) THEN ErrValueError
    ELSE IF /\ IsNone(_get_failed_list(ledger[precision]))
            /\ Len(pairs_list) > 0
            /\ Len(ligand_path_list.val) > 0
         THEN ErrTypeError
    ELSE NoErr

\* the data list the runner returns is handed to the caller, not kept
multi_extract_data(precision) ==
    LET rebuild == IsNone(dock_file_list)
        failed == _get_failed_list(ledger[precision])
        err == multi_extract_data_raises(precision)
    IN  /\ dock_file_list' =
              IF rebuild /\ err = NoErr
              THEN Some(ExpectPairs(pairs_list, ligand_path_list.val,
                                    IF IsNone(failed) THEN <<>> ELSE failed.val, 1))
              ELSE dock_file_list
        /\ call' = Call("multi_extract_data", precision, err)
        /\ batch' = BatchAfter("multi_extract_data", precision, err, {})
        /\ UNCHANGED <<pdbfile_list, minimized_file_list, grid_file_list,
                       ligand_path_list, ligand_file_list, mapping,
                       docking_failed_list, ledger>>
        /\ Counted
        /\ UNCHANGED <<runnerVars, downloadVars, splitVars, vswVars, danceVars>>

----------------------------------------------------------------------------
\* multiprocssing_run (tool.py:112-148), one call

\* what the operation does on an item: return, raise, return only after the
\* timeout (if there is one), never return
Kinds == {"ok", "raise", "slow", "hang"}

RunnerInputs == UNION {[1..n -> Kinds] : n \in 0..MaxItems}

\* timeout = 0 if timeout is None else timeout
Timeouts == {0, 1}

WorkerCounts == -1..MaxWorkers

Busy == {w \in r_workers : w.st = "busy"}

Exited == {w \in r_workers : w.st = "exited"}

\* the pool's job cache: jobs submitted whose callback has not run yet
Outstanding == Len(r_taskq) + Cardinality(Busy) + Len(r_outq)

RunnerIdle ==
    /\ r_items = <<>>
    /\ r_k = 1
    /\ r_timeout = 0
    /\ r_pc = "idle"
    /\ r_next = 1
    /\ r_taskq = <<>>
    /\ r_workers = {}
    /\ r_outq = <<>>
    /\ r_returns = <<>>
    /\ r_completed = 0
    /\ r_spawned = 0
    /\ r_err = NoErr
    /\ cpu_count = MaxCores

\* a call with num_parallel passed by the caller
RunnerInit ==
    /\ cpu_count = MaxCores
    /\ r_items \in RunnerInputs
    /\ r_k \in WorkerCounts
    /\ r_timeout \in Timeouts
    /\ r_pc = "start"
    /\ r_next = 1
    /\ r_taskq = <<>>
    /\ r_workers = {}
    /\ r_outq = <<>>
    /\ r_returns = <<>>
    /\ r_completed = 0
    /\ r_spawned = 0
    /\ r_err = NoErr

\* NUM_PARALLEL = multiprocessing.cpu_count() // 4 * 3
NUM_PARALLEL == (cpu_count \div 4) * 3

\* a call with num_parallel left to its default, on a machine of any size
DefaultInit ==
    /\ cpu_count \in 1..MaxCores
    /\ r_k = NUM_PARALLEL
    /\ r_items \in RunnerInputs
    /\ r_timeout \in Timeouts
    /\ r_pc = "start"
    /\ r_next = 1
    /\ r_taskq = <<>>
    /\ r_workers = {}
    /\ r_outq = <<>>
    /\ r_returns = <<>>
    /\ r_completed = 0
    /\ r_spawned = 0
    /\ r_err = NoErr

\* a pool that starts one process too many
NewWorkersOneMore(have, k, spawned) ==
    {[pid |-> spawned + n, st |-> "idle", task |-> 0] : n \in 1..(k - have + 1)}

\* the processes the pool starts to have k of them
NewWorkers(have, k, spawned) ==
    {[pid |-> spawned + n, st |-> "idle", task |-> 0] : n \in 1..(k - have)}

\* a pool that takes a worker count below one for one worker
PoolCreateClamped ==
    /\ r_pc = "start"
    /\ LET k == IF r_k < 1 THEN 1 ELSE r_k
       IN  /\ r_pc' = "submit"
           /\ r_workers' = NewWorkers(0, k, r_spawned)
           /\ r_spawned' = r_spawned + k
           /\ UNCHANGED r_err
    /\ UNCHANGED <<cpu_count, r_items, r_k, r_timeout, r_next, r_taskq, r_outq,
                   r_returns, r_completed>>
    /\ UNCHANGED <<consoleVars, downloadVars, splitVars, vswVars, danceVars>>

\* Pool(num_parallel, maxtasksperchild=1)
PoolCreate ==
    /\ r_pc = "start"
    /\ IF r_k < 1
       THEN /\ r_pc' = "raised"
            /\ r_err' = ErrValueError
            /\ UNCHANGED <<r_workers, r_spawned>>
       ELSE /\ r_pc' = "submit"
            /\ r_workers' = NewWorkers(0, r_k, r_spawned)
            /\ r_spawned' = r_spawned + r_k
            /\ UNCHANGED r_err
    /\ UNCHANGED <<cpu_count, r_items, r_k, r_timeout, r_next, r_taskq, r_outq,
                   r_returns, r_completed>>
    /\ UNCHANGED <<consoleVars, downloadVars, splitVars, vswVars, danceVars>>

\* for item in iterable: pool.apply_async(...)
ApplyAsync ==
    /\ r_pc = "submit"
    /\ r_next <= Len(r_items)
    /\ r_taskq' = Append(r_taskq, r_next)
    /\ r_next' = r_next + 1
    /\ UNCHANGED <<cpu_count, r_items, r_k, r_timeout, r_pc, r_workers, r_outq,
                   r_returns, r_completed, r_spawned, r_err>>
    /\ UNCHANGED <<consoleVars, downloadVars, splitVars, vswVars, danceVars>>

\* pool.close(); pool.join() starts waiting
PoolClose ==
    /\ r_pc = "submit"
    /\ r_next > Len(r_items)
    /\ r_pc' = "join"
    /\ UNCHANGED <<cpu_count, r_items, r_k, r_timeout, r_next, r_taskq, r_workers,
                   r_outq, r_returns, r_completed, r_spawned, r_err>>
    /\ UNCHANGED <<consoleVars, downloadVars, splitVars, vswVars, danceVars>>

\* an idle worker process takes the next task and enters _func_timeout
WorkerTakes(w) ==
    /\ w \in r_workers
    /\ w.st = "idle"
    /\ r_taskq # <<>>
    /\ r_workers' = (r_workers \ {w}) \cup {[w EXCEPT !.st = "busy", !.task = Head(r_taskq)]}
    /\ r_taskq' = Tail(r_taskq)
    /\ UNCHANGED <<cpu_count, r_items, r_k, r_timeout, r_pc, r_next, r_outq, r_returns,
                   r_completed, r_spawned, r_err>>
    /\ UNCHANGED <<consoleVars, downloadVars, splitVars, vswVars, danceVars>>

\* the worker staying in the pool for the next task (no maxtasksperchild)
WorkerEndsReused(w, ok) ==
    /\ r_workers' = (r_workers \ {w}) \cup {[w EXCEPT !.st = "idle"]}
    /\ r_outq' = Append(r_outq, [task |-> w.task, ok |-> ok])
    /\ UNCHANGED <<cpu_count, r_items, r_k, r_timeout, r_pc, r_next, r_taskq, r_returns,
                   r_completed, r_spawned, r_err>>
    /\ UNCHANGED <<consoleVars, downloadVars, splitVars, vswVars, danceVars>>

\* the worker leaves its one task (maxtasksperchild=1) and exits
WorkerEnds(w, ok) ==
    /\ r_workers' = (r_workers \ {w}) \cup {[w EXCEPT !.st = "exited"]}
    /\ r_outq' = Append(r_outq, [task |-> w.task, ok |-> ok])
    /\ UNCHANGED <<cpu_count, r_items, r_k, r_timeout, r_pc, r_next, r_taskq, r_returns,
                   r_completed, r_spawned, r_err>>
    /\ UNCHANGED <<consoleVars, downloadVars, splitVars, vswVars, danceVars>>

\* result = func(*args, **kwargs) returns before any alarm
OpReturns(w) ==
    /\ w \in Busy
    /\ \/ r_items[w.task] = "ok"
       \/ r_items[w.task] = "slow" /\ r_timeout = 0
    /\ WorkerEnds(w, TRUE)

\* func raises and the exception comes back as the job's value
OpRaisesAsValue(w) ==
    /\ w \in Busy
    /\ r_items[w.task] = "raise"
    /\ WorkerEnds(w, TRUE)

\* func raises
OpRaises(w) ==
    /\ w \in Busy
    /\ r_items[w.task] = "raise"
    /\ WorkerEnds(w, FALSE)

\* the alarm armed with the default timeout=0, that is, not at all
AlarmUnarmed(w) ==
    /\ w \in Busy
    /\ 0 > 0
    /\ r_items[w.task] \in {"slow", "hang"}
    /\ WorkerEnds(w, FALSE)

\* signal.alarm(timeout) expires: timeout_handler raises TimeoutError
AlarmFires(w) ==
    /\ w \in Busy
    /\ r_timeout > 0
    /\ r_items[w.task] \in {"slow", "hang"}
    /\ WorkerEnds(w, FALSE)

\* the pool's worker handler: exited processes are joined and replaced
MaintainPool ==
    /\ r_pc \in {"submit", "join"}
    /\ Exited # {}
    /\ r_pc = "submit" \/ Outstanding > 0
    /\ LET live == r_workers \ Exited
       IN  /\ r_workers' = live \cup NewWorkers(Cardinality(live), r_k, r_spawned)
           /\ r_spawned' = r_spawned + (r_k - Cardinality(live))
    /\ UNCHANGED <<cpu_count, r_items, r_k, r_timeout, r_pc, r_next, r_taskq, r_outq,
                   r_returns, r_completed, r_err>>
    /\ UNCHANGED <<consoleVars, downloadVars, splitVars, vswVars, danceVars>>

\* a success callback that rebinds the list instead of appending to it
success_handler_rebind(result) ==
    /\ r_returns' = <<result>>
    /\ r_completed' = r_completed + 1

\* the pool's result handler runs the callback of the next finished job
success_handler(result) ==
    /\ r_returns' = Append(r_returns, result)
    /\ r_completed' = r_completed + 1

\* an error callback that logs and leaves the progress where it is
error_handler_silent ==
    /\ UNCHANGED r_completed
    /\ UNCHANGED r_returns

error_handler ==
    /\ r_completed' = r_completed + 1
    /\ UNCHANGED r_returns

HandleResult ==
    /\ r_outq # <<>>
    /\ IF Head(r_outq).ok THEN success_handler(Head(r_outq).task) ELSE error_handler
    /\ r_outq' = Tail(r_outq)
    /\ UNCHANGED <<cpu_count, r_items, r_k, r_timeout, r_pc, r_next, r_taskq, r_workers,
                   r_spawned, r_err>>
    /\ UNCHANGED <<consoleVars, downloadVars, splitVars, vswVars, danceVars>>

\* returning right after pool.close(), without pool.join()
PoolJoinNoWait ==
    /\ r_pc = "join"
    /\ r_pc' = "done"
    /\ UNCHANGED <<cpu_count, r_items, r_k, r_timeout, r_next, r_taskq, r_workers,
                   r_outq, r_returns, r_completed, r_spawned, r_err>>
    /\ UNCHANGED <<consoleVars, downloadVars, splitVars, vswVars, danceVars>>

\* pool.join() returns; progress.stop(); return returns
PoolJoin ==
    /\ r_pc = "join"
    /\ Outstanding = 0
    /\ r_pc' = "done"
    /\ UNCHANGED <<cpu_count, r_items, r_k, r_timeout, r_next, r_taskq, r_workers,
                   r_outq, r_returns, r_completed, r_spawned, r_err>>
    /\ UNCHANGED <<consoleVars, downloadVars, splitVars, vswVars, danceVars>>

----------------------------------------------------------------------------
\* download_pdb_list and download_pdb (tool.py:151-196), one call

PdbIds == {"1abc", "2xyz"}

\* response.status_code
StatusCodes == {200, 404}

DownloadInputs == UNION {[1..n -> PdbIds] : n \in 0..MaxIds}

\* a thread of the call: not started, in download_pdb before the request,
\* holding the response, returned, or ended by the RuntimeError
ThreadStates == {"new", "started", "fetched", "finished", "raised"}

Terminated(t) == dl_threads[t] \in {"finished", "raised"}

DownloadIdle ==
    /\ dl_pdblist = <<>>
    /\ dl_overwrite = FALSE
    /\ dl_status = [id \in PdbIds |-> 200]
    /\ dl_pc = "idle"
    /\ dl_threads = <<>>
    /\ dl_joined = 0
    /\ dl_files = {}

DownloadInit ==
    /\ dl_pdblist \in DownloadInputs
    /\ dl_overwrite \in BOOLEAN
    /\ dl_status \in [PdbIds -> StatusCodes]
    /\ dl_pc = "create"
    /\ dl_threads = <<>>
    /\ dl_joined = 0
    /\ dl_files \in SUBSET PdbIds

\* t = FixedThread(target=download_pdb, ...); threads.append(t)
DlCreate ==
    /\ dl_pc = "create"
    /\ Len(dl_threads) < Len(dl_pdblist)
    /\ dl_threads' = Append(dl_threads, "new")
    /\ UNCHANGED <<dl_pdblist, dl_overwrite, dl_status, dl_pc, dl_joined, dl_files>>
    /\ UNCHANGED <<consoleVars, runnerVars, splitVars, vswVars, danceVars>>

\* the first loop is over
DlCreated ==
    /\ dl_pc = "create"
    /\ Len(dl_threads) = Len(dl_pdblist)
    /\ dl_pc' = "start"
    /\ UNCHANGED <<dl_pdblist, dl_overwrite, dl_status, dl_threads, dl_joined, dl_files>>
    /\ UNCHANGED <<consoleVars, runnerVars, splitVars, vswVars, danceVars>>

\* t.start(), the threads in list order
DlStart ==
    /\ dl_pc = "start"
    /\ \E t \in DOMAIN dl_threads :
          /\ dl_threads[t] = "new"
          /\ \A u \in 1..(t - 1) : dl_threads[u] # "new"
          /\ dl_threads' = [dl_threads EXCEPT ![t] = "started"]
    /\ UNCHANGED <<dl_pdblist, dl_overwrite, dl_status, dl_pc, dl_joined, dl_files>>
    /\ UNCHANGED <<consoleVars, runnerVars, splitVars, vswVars, danceVars>>

\* the second loop is over
DlStarted ==
    /\ dl_pc = "start"
    /\ \A t \in DOMAIN dl_threads : dl_threads[t] # "new"
    /\ dl_pc' = "join"
    /\ UNCHANGED <<dl_pdblist, dl_overwrite, dl_status, dl_threads, dl_joined, dl_files>>
    /\ UNCHANGED <<consoleVars, runnerVars, splitVars, vswVars, danceVars>>

\* download_pdb up to the status check (tool.py:159-171)
DownloadRequest(t) ==
    /\ dl_threads[t] = "started"
    /\ dl_threads' = [dl_threads EXCEPT ![t] =
          IF dl_pdblist[t] \in dl_files /\ ~dl_overwrite THEN "finished"
          ELSE IF dl_status[dl_pdblist[t]] # 200 THEN "raised"
          ELSE "fetched"]
    /\ UNCHANGED <<dl_pdblist, dl_overwrite, dl_status, dl_pc, dl_joined, dl_files>>
    /\ UNCHANGED <<consoleVars, runnerVars, splitVars, vswVars, danceVars>>

\* download_pdb writes the file (tool.py:172-176)
DownloadWrite(t) ==
    /\ dl_threads[t] = "fetched"
    /\ dl_files' = dl_files \cup {dl_pdblist[t]}
    /\ dl_threads' = [dl_threads EXCEPT ![t] = "finished"]
    /\ UNCHANGED <<dl_pdblist, dl_overwrite, dl_status, dl_pc, dl_joined>>
    /\ UNCHANGED <<consoleVars, runnerVars, splitVars, vswVars, danceVars>>

\* the third loop going on without waiting for the thread
DlJoinNoWait ==
    /\ dl_pc = "join"
    /\ dl_joined < Len(dl_threads)
    /\ dl_joined' = dl_joined + 1
    /\ UNCHANGED <<dl_pdblist, dl_overwrite, dl_status, dl_pc, dl_threads, dl_files>>
    /\ UNCHANGED <<consoleVars, runnerVars, splitVars, vswVars, danceVars>>

\* t.join(), the threads in list order: returns when the thread has ended
DlJoin ==
    /\ dl_pc = "join"
    /\ dl_joined < Len(dl_threads)
    /\ Terminated(dl_joined + 1)
    /\ dl_joined' = dl_joined + 1
    /\ UNCHANGED <<dl_pdblist, dl_overwrite, dl_status, dl_pc, dl_threads, dl_files>>
    /\ UNCHANGED <<consoleVars, runnerVars, splitVars, vswVars, danceVars>>

\* the third loop is over: download_pdb_list returns
DlReturn ==
    /\ dl_pc = "join"
    /\ dl_joined = Len(dl_threads)
    /\ dl_pc' = "returned"
    /\ UNCHANGED <<dl_pdblist, dl_overwrite, dl_status, dl_threads, dl_joined, dl_files>>
    /\ UNCHANGED <<consoleVars, runnerVars, splitVars, vswVars, danceVars>>

----------------------------------------------------------------------------
\* split_ligand (ensemble.py:11-66), one call, structure by structure

\* activity_label_name, in the order the inner loop tries the labels
activity_label_name ==
    <<"b_user_Activity", "b_user_activity", "s_user_Activity", "s_user_activity">>

\* a structure of the file: its s_m_title and the activity properties it has
\* (the value of a property is written as the name of the property)
Structures == [title : Titles, property : SUBSET Range(activity_label_name)]

SplitInputs == UNION {[1..n -> Structures] : n \in 0..MaxStructures}

\* st_activity: the value under the first label the structure has, else ''
StActivity(structure) ==
    LET has == {n \in DOMAIN activity_label_name :
                   activity_label_name[n] \in structure.property}
    IN  IF has = {} THEN <<>>
        ELSE <<activity_label_name[CHOOSE n \in has : \A m \in has : n <= m]>>

SplitIdle ==
    /\ sl_structures = <<>>
    /\ sl_overwrite = FALSE
    /\ sl_exists = FALSE
    /\ sl_pc = "idle"
    /\ sl_label_list = <<>>
    /\ sl_ligand_path_list = <<>>
    /\ sl_written = <<>>
    /\ sl_label_csv = None

\* label_list = []; ligand_path_list = []; save_dir may hold the files of an
\* earlier split and its label.csv
SplitInit ==
    /\ sl_structures \in SplitInputs
    /\ sl_overwrite \in BOOLEAN
    /\ sl_exists \in BOOLEAN
    /\ sl_pc = "loop"
    /\ sl_label_list = <<>>
    /\ sl_ligand_path_list = <<>>
    /\ sl_written = <<>>
    /\ sl_label_csv \in {None, Some(<<>>)}

\* one pass of the loop over enumerate(ligand_file.structures)
SplitStructure ==
    /\ sl_pc = "loop"
    /\ Len(sl_ligand_path_list) < Len(sl_structures)
    /\ LET index == Len(sl_ligand_path_list)
           structure == sl_structures[index + 1]
           st_name == StName(index, structure.title)
       IN  /\ sl_label_list' =
                 Append(sl_label_list, st_name \o <<Comma>> \o StActivity(structure))
           /\ sl_written' =
                 IF ~sl_exists \/ sl_overwrite THEN Append(sl_written, st_name)
                 ELSE sl_written
           /\ sl_ligand_path_list' = Append(sl_ligand_path_list, st_name)
    /\ UNCHANGED <<sl_structures, sl_overwrite, sl_exists, sl_pc, sl_label_csv>>
    /\ UNCHANGED <<consoleVars, runnerVars, downloadVars, vswVars, danceVars>>

\* label.csv is written anew with the lines of label_list; the call returns
\* ligand_path_list
SplitReturn ==
    /\ sl_pc = "loop"
    /\ Len(sl_ligand_path_list) = Len(sl_structures)
    /\ sl_label_csv' = Some(sl_label_list)
    /\ sl_pc' = "returned"
    /\ UNCHANGED <<sl_structures, sl_overwrite, sl_exists, sl_label_list,
                   sl_ligand_path_list, sl_written>>
    /\ UNCHANGED <<consoleVars, runnerVars, downloadVars, vswVars, danceVars>>

----------------------------------------------------------------------------
\* UI_VSW (VSW/__main__.py): the menu loop and run(flag)

\* names the registry may hold
Genes == {"GENE1", "GENE2"}
Databases == {"DB1", "DB2"}

\* what vsw.generate_input_file() returns
InputFiles == {"GENE1.inp"}

\* what a choice came to: the message logged last, the methods of the VSW
\* object it invoked, the exception it ended with
Last(flag, log, invoked, err) ==
    [flag |-> flag, log |-> log, invoked |-> invoked, err |-> err]

NoChoice == Last("-", "", <<>>, NoErr)

VswIdle ==
    /\ vsw_gene = ""
    /\ vsw_database = ""
    /\ vsw_inputfile = None
    /\ vsw_genelist = {}
    /\ vsw_database_list = {}
    /\ vsw_pc = "idle"
    /\ vsw_last = NoChoice

\* UI_VSW.__init__: gene and database are set to '', no attribute inputfile
\* is made (None stands for the attribute that is not there)
UI_VSW_init ==
    /\ vsw_gene = ""
    /\ vsw_database = ""
    /\ vsw_inputfile = None
    /\ vsw_genelist \in SUBSET Genes
    /\ vsw_database_list \in SUBSET Databases
    /\ vsw_pc = "menu"
    /\ vsw_last = NoChoice

\* not self.inputfile, on an object that has the attribute
Falsy(attribute) == attribute.val = ""

\* flag '1': get_gene
UI_VSW_get_gene ==
    /\ vsw_pc = "menu"
    /\ \E g \in vsw_genelist : vsw_gene' = g
    /\ vsw_last' = Last("1", "", <<"get_gene", "get_receptor_list">>, NoErr)
    /\ UNCHANGED <<vsw_database, vsw_inputfile, vsw_genelist, vsw_database_list, vsw_pc>>
    /\ UNCHANGED <<consoleVars, runnerVars, downloadVars, splitVars, danceVars>>

\* flag '2': get_database
UI_VSW_get_database ==
    /\ vsw_pc = "menu"
    /\ \E d \in vsw_database_list : vsw_database' = d
    /\ vsw_last' = Last("2", "", <<"select_database">>, NoErr)
    /\ UNCHANGED <<vsw_gene, vsw_inputfile, vsw_genelist, vsw_database_list, vsw_pc>>
    /\ UNCHANGED <<consoleVars, runnerVars, downloadVars, splitVars, danceVars>>

\* flag '3': create the input file
UI_VSW_create_input ==
    /\ vsw_pc = "menu"
    /\ IF vsw_gene = ""
       THEN /\ vsw_last' = Last("3", "No Gene selected.", <<>>, NoErr)
            /\ UNCHANGED vsw_inputfile
       ELSE IF vsw_database = ""
       THEN /\ vsw_last' = Last("3", "No database selected.", <<>>, NoErr)
            /\ UNCHANGED vsw_inputfile
       ELSE /\ \E f \in InputFiles : vsw_inputfile' = Some(f)
            /\ vsw_last' = Last("3", "", <<"generate_input_file">>, NoErr)
    /\ UNCHANGED <<vsw_gene, vsw_database, vsw_genelist, vsw_database_list, vsw_pc>>
    /\ UNCHANGED <<consoleVars, runnerVars, downloadVars, splitVars, danceVars>>

\* flag '4': run the workflow; reading an attribute that is not there raises
\* AttributeError, which leaves run and the menu loop
UI_VSW_run_workflow ==
    /\ vsw_pc = "menu"
    /\ IF IsNone(vsw_inputfile)
       THEN /\ vsw_last' = Last("4", "", <<>>, ErrAttributeError)
            /\ vsw_pc' = "raised"
       ELSE IF Falsy(vsw_inputfile)
       THEN /\ vsw_last' = Last("4", "No input file created.", <<>>, NoErr)
            /\ UNCHANGED vsw_pc
       ELSE /\ vsw_last' = Last("4", "VSW job completed.",
                                <<"optimize", "split", "grid_generate", "run">>, NoErr)
            /\ UNCHANGED vsw_pc
    /\ UNCHANGED <<vsw_gene, vsw_database, vsw_inputfile, vsw_genelist, vsw_database_list>>
    /\ UNCHANGED <<consoleVars, runnerVars, downloadVars, splitVars, danceVars>>

\* flag '5': register.reg_gene
UI_VSW_reg_gene ==
    /\ vsw_pc = "menu"
    /\ \E g \in Genes : vsw_genelist' = vsw_genelist \cup {g}
    /\ vsw_last' = Last("5", "", <<>>, NoErr)
    /\ UNCHANGED <<vsw_gene, vsw_database, vsw_inputfile, vsw_database_list, vsw_pc>>
    /\ UNCHANGED <<consoleVars, runnerVars, downloadVars, splitVars, danceVars>>

\* flag '6': register.reg_database
UI_VSW_reg_database ==
    /\ vsw_pc = "menu"
    /\ \E d \in Databases : vsw_database_list' = vsw_database_list \cup {d}
    /\ vsw_last' = Last("6", "", <<>>, NoErr)
    /\ UNCHANGED <<vsw_gene, vsw_database, vsw_inputfile, vsw_genelist, vsw_pc>>
    /\ UNCHANGED <<consoleVars, runnerVars, downloadVars, splitVars, danceVars>>

\* flag '7': register.del_gene
UI_VSW_del_gene ==
    /\ vsw_pc = "menu"
    /\ \E g \in Genes : vsw_genelist' = vsw_genelist \ {g}
    /\ vsw_last' = Last("7", "", <<>>, NoErr)
    /\ UNCHANGED <<vsw_gene, vsw_database, vsw_inputfile, vsw_database_list, vsw_pc>>
    /\ UNCHANGED <<consoleVars, runnerVars, downloadVars, splitVars, danceVars>>

\* flag '8': register.del_database
UI_VSW_del_database ==
    /\ vsw_pc = "menu"
    /\ \E d \in Databases : vsw_database_list' = vsw_database_list \ {d}
    /\ vsw_last' = Last("8", "", <<>>, NoErr)
    /\ UNCHANGED <<vsw_gene, vsw_database, vsw_inputfile, vsw_genelist, vsw_pc>>
    /\ UNCHANGED <<consoleVars, runnerVars, downloadVars, splitVars, danceVars>>

\* flag '0': the menu loop breaks
UI_VSW_exit ==
    /\ vsw_pc = "menu"
    /\ vsw_pc' = "exited"
    /\ vsw_last' = Last("0", "", <<>>, NoErr)
    /\ UNCHANGED <<vsw_gene, vsw_database, vsw_inputfile, vsw_genelist, vsw_database_list>>
    /\ UNCHANGED <<consoleVars, runnerVars, downloadVars, splitVars, danceVars>>

----------------------------------------------------------------------------
\* UI_Dance (Dance/__main__.py): the menu loop and run(flag)

MatrixFiles == {"matrix.csv", "other.csv"}

\* the datasets options 2 to 6 compute
DataNames == [f \in {"2", "3", "4", "5", "6"} |->
                 CASE f = "2" -> "ave" [] f = "3" -> "geo" [] f = "4" -> "min"
                   [] f = "5" -> "max" [] f = "6" -> "z_score"]

\* Dancer(file_path): nothing computed, merge not called
Dancer(file_path) ==
    [file |-> file_path, current_data |-> {}, merge_called |-> FALSE]

DanceIdle ==
    /\ dn_merged = FALSE
    /\ dn_dancer = None
    /\ dn_pc = "idle"
    /\ dn_last = NoChoice

\* UI_Dance.__init__
UI_Dance_init ==
    /\ dn_merged = FALSE
    /\ dn_dancer = None
    /\ dn_pc = "menu"
    /\ dn_last = NoChoice

\* any flag but '1' with no matrix read
NoDancer(flag) ==
    /\ IsNone(dn_dancer)
    /\ dn_last' = Last(flag, "No matrix dataset read.", <<>>, NoErr)
    /\ UNCHANGED <<dn_merged, dn_dancer, dn_pc>>

\* flag '1': read a matrix file
UI_Dance_read(found) ==
    /\ dn_pc = "menu"
    /\ IF found
       THEN \E file_path \in MatrixFiles :
               /\ dn_dancer' = Some(Dancer(file_path))
               /\ dn_last' = Last("1", "", <<"Dancer">>, NoErr)
       ELSE /\ dn_last' = Last("1", "File not found.", <<>>, NoErr)
            /\ UNCHANGED dn_dancer
    /\ UNCHANGED <<dn_merged, dn_pc>>
    /\ UNCHANGED <<consoleVars, runnerVars, downloadVars, splitVars, vswVars>>

\* flags '2' to '5': mean, min, max
UI_Dance_calculate(flag) ==
    /\ dn_pc = "menu"
    /\ \/ NoDancer(flag)
       \/ /\ ~IsNone(dn_dancer)
          /\ dn_dancer' = Some([dn_dancer.val EXCEPT
                                  !.current_data = @ \cup {DataNames[flag]}])
          /\ dn_last' = Last(flag, "", <<DataNames[flag]>>, NoErr)
          /\ UNCHANGED <<dn_merged, dn_pc>>
    /\ UNCHANGED <<consoleVars, runnerVars, downloadVars, splitVars, vswVars>>

\* flag '6': z_score; float(input(...)) of no number raises ValueError
UI_Dance_z_score(valid) ==
    /\ dn_pc = "menu"
    /\ \/ NoDancer("6") /\ valid
       \/ /\ ~IsNone(dn_dancer)
          /\ IF valid
             THEN /\ dn_dancer' = Some([dn_dancer.val EXCEPT
                                          !.current_data = @ \cup {DataNames["6"]}])
                  /\ dn_last' = Last("6", "", <<DataNames["6"]>>, NoErr)
                  /\ UNCHANGED dn_pc
             ELSE /\ dn_last' = Last("6", "", <<>>, ErrValueError)
                  /\ dn_pc' = "raised"
                  /\ UNCHANGED dn_dancer
          /\ UNCHANGED dn_merged
    /\ UNCHANGED <<consoleVars, runnerVars, downloadVars, splitVars, vswVars>>

\* flag '7': merge; a name that is no current dataset raises KeyError before
\* merge is called
UI_Dance_merge(_need_merge) ==
    /\ dn_pc = "menu"
    /\ \/ NoDancer("7") /\ _need_merge = {}
       \/ /\ ~IsNone(dn_dancer)
          /\ IF _need_merge \subseteq dn_dancer.val.current_data
             THEN /\ dn_dancer' = Some([dn_dancer.val EXCEPT !.merge_called = TRUE])
                  /\ dn_merged' = TRUE
                  /\ dn_last' = Last("7", "", <<"merge">>, NoErr)
                  /\ UNCHANGED dn_pc
             ELSE /\ dn_last' = Last("7", "", <<>>, ErrKeyError)
                  /\ dn_pc' = "raised"
                  /\ UNCHANGED <<dn_dancer, dn_merged>>
    /\ UNCHANGED <<consoleVars, runnerVars, downloadVars, splitVars, vswVars>>

\* flag '8': ROC curve and AUC
UI_Dance_auc(valid) ==
    /\ dn_pc = "menu"
    /\ \/ NoDancer("8") /\ valid
       \/ /\ ~IsNone(dn_dancer)
          /\ dn_last' =
                IF ~dn_merged THEN Last("8", "No merged dataset.", <<>>, NoErr)
                ELSE IF ~valid THEN Last("8", "not in the label column.", <<>>, NoErr)
                ELSE Last("8", "", <<"auc">>, NoErr)
          /\ UNCHANGED <<dn_merged, dn_dancer, dn_pc>>
    /\ UNCHANGED <<consoleVars, runnerVars, downloadVars, splitVars, vswVars>>

\* flag '9': scatter
UI_Dance_scatter(valid) ==
    /\ dn_pc = "menu"
    /\ \/ NoDancer("9") /\ valid
       \/ /\ ~IsNone(dn_dancer)
          /\ dn_last' =
                IF ~valid THEN Last("9", "not in the label column.", <<>>, NoErr)
                ELSE Last("9", "", <<"scatter">>, NoErr)
          /\ UNCHANGED <<dn_merged, dn_dancer, dn_pc>>
    /\ UNCHANGED <<consoleVars, runnerVars, downloadVars, splitVars, vswVars>>

\* flag '0': the menu loop breaks
UI_Dance_exit ==
    /\ dn_pc = "menu"
    /\ dn_pc' = "exited"
    /\ dn_last' = Last("0", "", <<>>, NoErr)
    /\ UNCHANGED <<dn_merged, dn_dancer>>
    /\ UNCHANGED <<consoleVars, runnerVars, downloadVars, splitVars, vswVars>>

OthersIdle == DownloadIdle /\ SplitIdle /\ VswIdle /\ DanceIdle

----------------------------------------------------------------------------
\* Specifications

\* the outcomes of a batch over the items D: the indices that succeed
Outcomes(D) ==
    {D \ F : F \in {S \in SUBSET D : Cardinality(S) <= MaxFailures}} \cup {{}}

\* the items the next runner call of a stage would be handed
Minimized == IF IsNone(minimized_file_list) THEN {} ELSE DOMAIN minimized_file_list.val

Submittable == IF IsNone(mapping) THEN {} ELSE DOMAIN mapping.val

Init == ConsoleInit /\ RunnerIdle /\ OthersIdle

Next ==
    \/ __init__
    \/ download_all_pdb
    \/ keep_single_chain
    \/ \E keep \in BOOLEAN, ok \in Outcomes(DOMAIN pairs_list) : multi_minimize(keep, ok)
    \/ \E ok \in Outcomes(Minimized) : multi_grid_generate(ok)
    \/ minimized_split
    \/ \E lib \in LigandLibraries : ligand_split(lib)
    \/ \E p \in Precisions : creat_mapping(p)
    \/ \E p \in Precisions, ok \in Outcomes(Submittable) : multi_dock(p, ok)
    \/ \E p \in Precisions : multi_extract_data(p)

Spec == Init /\ [][Next]_vars

\* a console on which multi_minimize, multi_grid_generate and ligand_split
\* have run, every receptor having come through
ConsolePrepared ==
    LET files == [i \in DOMAIN pairs_list |-> PDBFile(pairs_list[i], TRUE)]
        minimized == [i \in DOMAIN files |-> MinimizedFile(files[i])]
    IN  /\ pdbfile_list = Some(files)
        /\ minimized_file_list = Some(minimized)
        /\ grid_file_list = Some([i \in DOMAIN minimized |-> GridFile(minimized[i])])
        /\ \E lib \in LigandLibraries : ligand_path_list = Some(split_ligand(lib))
        /\ ligand_file_list = None
        /\ mapping = None
        /\ dock_file_list = None
        /\ docking_failed_list = None
        /\ ledger = [p \in Precisions |-> None]
        /\ call = Call("ligand_split", "-", NoErr)
        /\ ncalls = 0
        /\ batch = NoBatch

LedgerInit == ConsolePrepared /\ RunnerIdle /\ OthersIdle

LedgerNext ==
    \/ \E p \in Precisions : creat_mapping(p)
    \/ \E p \in Precisions, ok \in Outcomes(Submittable) : multi_dock(p, ok)
    \/ \E p \in Precisions : multi_extract_data(p)

LedgerSpec == LedgerInit /\ [][LedgerNext]_vars

\* the records a ledger file left by earlier runs may hold: any receptor id
\* with any internal ligand id and the name of a first structure of a library
LeftoverTriples ==
    {<<pairs_list[i][1], pairs_list[j][2], StName(k, <<"A">>)>> :
        i \in DOMAIN pairs_list, j \in DOMAIN pairs_list, k \in {0, 1}}

\* ledger files of the working directory: absent, empty, or up to MaxLines
\* distinct well-formed lines
LeftoverFiles ==
    {None} \cup
    {Some(SetToSeq({Join3(s[i][1], s[i][2], s[i][3]) : i \in DOMAIN s})) :
        s \in UNION {[1..n -> LeftoverTriples] : n \in 0..MaxLines}}

\* a console on which multi_minimize, multi_grid_generate (the first m
\* receptors having come through) and ligand_split have run, over a working
\* directory that may hold a failure ledger of earlier runs
MappingInit ==
    LET files == [i \in DOMAIN pairs_list |-> PDBFile(pairs_list[i], TRUE)]
        minimized == [i \in DOMAIN files |-> MinimizedFile(files[i])]
    IN  /\ pdbfile_list = Some(files)
        /\ minimized_file_list = Some(minimized)
        /\ \E m \in 0..NumPairs :
              grid_file_list = Some([i \in 1..m |-> GridFile(minimized[i])])
        /\ \E lib \in LigandLibraries : ligand_path_list = Some(split_ligand(lib))
        /\ ligand_file_list = None
        /\ mapping = None
        /\ dock_file_list = None
        /\ docking_failed_list = None
        /\ \E file \in LeftoverFiles :
              ledger = [p \in Precisions |-> IF p = "SP" THEN file ELSE None]
        /\ call = Call("ligand_split", "-", NoErr)
        /\ ncalls = 0
        /\ batch = NoBatch
        /\ RunnerIdle
        /\ OthersIdle

\* one call that reads the ledger
MappingNext ==
    /\ ncalls = 0
    /\ \/ \E p \in Precisions : creat_mapping(p)
       \/ \E p \in Precisions : multi_extract_data(p)

MappingSpec == MappingInit /\ [][MappingNext]_vars

RunnerStart == ConsoleInit /\ RunnerInit /\ OthersIdle

RunnerNext ==
    \/ PoolCreate
    \/ ApplyAsync
    \/ PoolClose
    \/ \E w \in r_workers : WorkerTakes(w)
    \/ \E w \in r_workers : OpReturns(w)
    \/ \E w \in r_workers : OpRaises(w)
    \/ \E w \in r_workers : AlarmFires(w)
    \/ MaintainPool
    \/ HandleResult
    \/ PoolJoin

RunnerSpec == RunnerStart /\ [][RunnerNext]_vars

\* every process that can run is eventually scheduled
RunnerFairSpec == RunnerStart /\ [][RunnerNext]_vars /\ WF_vars(RunnerNext)

DefaultStart == ConsoleInit /\ DefaultInit /\ OthersIdle

DefaultSpec == DefaultStart /\ [][RunnerNext]_vars

\* a new console over a working directory that may hold a failure ledger of
\* earlier runs
ExtractInit ==
    /\ pdbfile_list = None
    /\ minimized_file_list = None
    /\ grid_file_list = None
    /\ ligand_path_list = None
    /\ ligand_file_list = None
    /\ mapping = None
    /\ dock_file_list = None
    /\ docking_failed_list = None
    /\ \E file \in LeftoverFiles :
          ledger = [p \in Precisions |-> IF p = "SP" THEN file ELSE None]
    /\ call = Call("__init__", "-", NoErr)
    /\ ncalls = 0
    /\ batch = NoBatch
    /\ RunnerIdle
    /\ OthersIdle

\* ligand_split and multi_extract_data called in any order
ExtractNext ==
    /\ ncalls < MaxExtractCalls
    /\ \/ \E lib \in LigandLibraries : ligand_split(lib)
       \/ \E p \in Precisions : multi_extract_data(p)

ExtractSpec == ExtractInit /\ [][ExtractNext]_vars

DownloadStart ==
    ConsoleInit /\ RunnerIdle /\ DownloadInit /\ SplitIdle /\ VswIdle /\ DanceIdle

DownloadNext ==
    \/ DlCreate
    \/ DlCreated
    \/ DlStart
    \/ DlStarted
    \/ \E t \in DOMAIN dl_threads : DownloadRequest(t)
    \/ \E t \in DOMAIN dl_threads : DownloadWrite(t)
    \/ DlJoin
    \/ DlReturn

DownloadSpec == DownloadStart /\ [][DownloadNext]_vars

SplitStart ==
    ConsoleInit /\ RunnerIdle /\ DownloadIdle /\ SplitInit /\ VswIdle /\ DanceIdle

SplitNext == SplitStructure \/ SplitReturn

SplitSpec == SplitStart /\ [][SplitNext]_vars

VswStart ==
    ConsoleInit /\ RunnerIdle /\ DownloadIdle /\ SplitIdle /\ UI_VSW_init /\ DanceIdle

VswNext ==
    \/ UI_VSW_get_gene
    \/ UI_VSW_get_database
    \/ UI_VSW_create_input
    \/ UI_VSW_run_workflow
    \/ UI_VSW_reg_gene
    \/ UI_VSW_reg_database
    \/ UI_VSW_del_gene
    \/ UI_VSW_del_database
    \/ UI_VSW_exit

VswSpec == VswStart /\ [][VswNext]_vars

DanceStart ==
    ConsoleInit /\ RunnerIdle /\ DownloadIdle /\ SplitIdle /\ VswIdle /\ UI_Dance_init

DanceNext ==
    \/ \E found \in BOOLEAN : UI_Dance_read(found)
    \/ \E flag \in {"2", "3", "4", "5"} : UI_Dance_calculate(flag)
    \/ \E valid \in BOOLEAN : UI_Dance_z_score(valid)
    \/ \E _need_merge \in SUBSET Range(DataNames) : UI_Dance_merge(_need_merge)
    \/ \E valid \in BOOLEAN : UI_Dance_auc(valid)
    \/ \E valid \in BOOLEAN : UI_Dance_scatter(valid)
    \/ UI_Dance_exit

DanceSpec == DanceStart /\ [][DanceNext]_vars

----------------------------------------------------------------------------
\* Properties of the failure ledger, checked under LedgerSpec

\* the records a ledger file holds
LedgerRecords(file) == IF IsNone(file) THEN {} ELSE Range(file.val)

\* a console call has just been made
Called == ncalls' = ncalls + 1

\* the last call was multi_dock and it ran its batch
Docked == call.op = "multi_dock" /\ call.err = NoErr

\* the submitted items the runner returned no DockResult for
Lost == {i \in DOMAIN mapping.val :
            DockResultFile(mapping.val[i]) \notin Range(dock_file_list.val)}

\* C1: in a sequence of batch runs creat_mapping(p); multi_dock(p) at one
\* precision p, a triple some run recorded as failed is in no mapping a later
\* creat_mapping(p) builds.
C1_NeverRetried ==
    (batch.shape = "mapped")
        => \A i \in DOMAIN mapping.val : Triple(mapping.val[i]) \notin batch.failed

\* C2: the ledger is append-only: no call takes a record out of the ledger
\* file of any precision.
C2_AppendOnly ==
    [][\A p \in Precisions : LedgerRecords(ledger[p]) \subseteq LedgerRecords(ledger'[p])]_vars

\* C3: when multi_dock(p) submits its batch, no submitted item has its triple
\* in the ledger file of p at that moment.
C3_NoLedgerPairSubmitted ==
    [][(Called /\ call'.op = "multi_dock" /\ call'.err = NoErr)
          => \A i \in DOMAIN mapping.val :
                Line(mapping.val[i]) \notin LedgerRecords(ledger[call'.p])]_vars

\* C4: after multi_dock, docking_failed_list holds the triples of exactly the
\* submitted items without a DockResult, each once.
C4_FailedListExact ==
    Docked =>
        /\ Range(docking_failed_list.val) = {Line(mapping.val[i]) : i \in Lost}
        /\ Len(docking_failed_list.val) = Cardinality(Lost)

\* C4 witness: a batch in which some items got a result and some did not
C4_Witness ==
    /\ Docked
    /\ Lost # {}
    /\ Lost # DOMAIN mapping.val

\* C5: multi_dock(p) writes the ledger file of p iff the new failure set is
\* not empty; the file then holds that set and nothing else; with an empty
\* set the file is left as it was.
C5_WriteIffFailures ==
    [][(Called /\ call'.op = "multi_dock" /\ call'.err = NoErr)
          => LET lost == {i \in DOMAIN mapping.val :
                            DockResultFile(mapping.val[i]) \notin Range(dock_file_list'.val)}
                 new == {Line(mapping.val[i]) : i \in lost}
             IN  /\ call'.wrote <=> (new # {})
                 /\ call'.wrote => /\ ~IsNone(ledger'[call'.p])
                                   /\ LedgerRecords(ledger'[call'.p]) = new
                                   /\ Len(ledger'[call'.p].val) = Cardinality(new)
                 /\ ~call'.wrote => ledger'[call'.p] = ledger[call'.p]]_vars

\* C5 witness: a write that replaced a ledger holding a triple of an earlier run
C5_Witness ==
    /\ Docked
    /\ call.wrote
    /\ \E t \in batch.failed : Join3(t[1], t[2], t[3]) \notin LedgerRecords(ledger[call.p])

----------------------------------------------------------------------------
\* Properties of the runner, checked under RunnerSpec and RunnerFairSpec

\* the items whose operation raises
Raising == {i \in DOMAIN r_items : r_items[i] = "raise"}

\* the operation returns for the item, no timeout being reached
Succeeds(i) == r_items[i] = "ok" \/ (r_items[i] = "slow" /\ r_timeout = 0)

\* the operation never returns for the item
Hanging == {i \in DOMAIN r_items : r_items[i] = "hang"}

\* C6: when the operation raises for the items of S and succeeds for the
\* others, the runner returns len(items) - |S| results, none from an item of
\* S and one from every other item, and raises nothing itself.
C6_RaiseIsolated ==
    (\A i \in DOMAIN r_items : i \in Raising \/ Succeeds(i))
        => /\ r_pc = "raised" => r_k < 1
           /\ Range(r_returns) \cap Raising = {}
           /\ r_pc = "done" =>
                 /\ Len(r_returns) = Len(r_items) - Cardinality(Raising)
                 /\ Range(r_returns) = (DOMAIN r_items) \ Raising

\* C6 witness: a returned call in which one item raised and another succeeded
C6_Witness ==
    /\ r_pc = "done"
    /\ Raising # {}
    /\ r_returns # <<>>
    /\ \A i \in DOMAIN r_items : i \in Raising \/ Succeeds(i)

\* C7: with a positive timeout the runner call comes back even when the
\* operation never returns: an item that hangs gives no result, and the
\* result list is empty when every item hangs.
C7_TimeoutTerminates ==
    /\ [](Range(r_returns) \cap Hanging = {})
    /\ []((r_pc = "done" /\ Hanging = DOMAIN r_items) => r_returns = <<>>)
    /\ (r_timeout > 0 /\ r_k >= 1) ~> (r_pc = "done")

\* C7 witness: a call over hanging items only that has returned
C7_Witness ==
    /\ r_pc = "done"
    /\ r_timeout > 0
    /\ Len(r_items) >= 2
    /\ Hanging = DOMAIN r_items

\* C8: when the operation succeeds for every item, the result list has
\* len(items) entries and holds every item's result exactly once, for every
\* worker count and interleaving.
C8_AllResultsOnce ==
    (r_pc = "done" /\ \A i \in DOMAIN r_items : Succeeds(i))
        => /\ Len(r_returns) = Len(r_items)
           /\ Range(r_returns) = DOMAIN r_items

\* C8 witness: all items succeeded and the results are not in input order
C8_Witness ==
    /\ r_pc = "done"
    /\ Len(r_items) >= 2
    /\ \A i \in DOMAIN r_items : Succeeds(i)
    /\ r_returns[1] # 1

\* C9: at no moment are more than k items' operations executing (none at all
\* when k is not a valid worker count).
C9_AtMostKRunning == Cardinality(Busy) <= (IF r_k < 0 THEN 0 ELSE r_k)

\* C9 witness: a pool of several workers, all of them executing an item
C9_Witness ==
    /\ r_k >= 2
    /\ Cardinality(Busy) = r_k

----------------------------------------------------------------------------
\* Properties of the stage order, checked under Spec

\* the stages of the chain download, single-chain, minimize, grid-generate,
\* ligand-split, map, dock, extract
Stages == {"download_all_pdb", "keep_single_chain", "multi_minimize",
           "multi_grid_generate", "ligand_split", "creat_mapping",
           "multi_dock", "multi_extract_data"}

PrerequisiteErrors == {ErrNoMinimized, ErrNoLigandSplit, ErrNoGrid, ErrNoMapping}

\* the output of the stage before op is in the console
\* (multi_minimize runs the two stages before it itself)
PrecedingOutput(op) ==
    CASE op = "download_all_pdb" -> TRUE
      [] op = "keep_single_chain" -> ~IsNone(pdbfile_list)
      [] op = "multi_minimize" -> TRUE
      [] op = "multi_grid_generate" -> ~IsNone(minimized_file_list)
      [] op = "ligand_split" -> ~IsNone(grid_file_list)
      [] op = "creat_mapping" -> ~IsNone(ligand_path_list)
      [] op = "multi_dock" -> ~IsNone(mapping)
      [] op = "multi_extract_data" -> ~IsNone(dock_file_list)

C11_NoMappingError ==
    [][(Called /\ call'.op = "multi_dock" /\ IsNone(mapping))
          => /\ call'.err = ErrNoMapping
             /\ UNCHANGED <<dock_file_list, docking_failed_list, ledger>>]_vars

\* C12: creat_mapping called before ligand_split raises the error naming
\* ligand split; called after ligand_split and before any grid generation it
\* raises the error naming grid generation; in both cases mapping and
\* ligand_file_list are left as they were.
C12_MissingStageNamed ==
    [][(Called /\ call'.op = "creat_mapping")
          => /\ IsNone(ligand_path_list) =>
                   /\ call'.err = ErrNoLigandSplit
                   /\ UNCHANGED <<mapping, ligand_file_list>>
             /\ (~IsNone(ligand_path_list) /\ IsNone(grid_file_list)) =>
                   /\ call'.err = ErrNoGrid
                   /\ UNCHANGED <<mapping, ligand_file_list>>]_vars

\* C12 witness: creat_mapping called with grids generated and no ligand split
\* has raised naming ligand split, the console still without a mapping
C12_Witness ==
    /\ call.op = "creat_mapping"
    /\ call.err = ErrNoLigandSplit
    /\ ~IsNone(grid_file_list)
    /\ IsNone(ligand_path_list)
    /\ IsNone(mapping)
    /\ IsNone(ligand_file_list)

----------------------------------------------------------------------------
\* Properties of the mapping builder, checked under MappingSpec

\* the last call was creat_mapping and it built a mapping
Built == call.op = "creat_mapping" /\ call.err = NoErr

\* the exclusion set: the triples on the lines of the ledger file
Exclusion(file) ==
    IF IsNone(file) THEN {}
    ELSE {t \in LeftoverTriples : Join3(t[1], t[2], t[3]) \in Range(file.val)}

\* the key triples of the cross product of grids and ligand files
Keys(G, L) == {Triple(<<G[i], L[j]>>) : i \in DOMAIN G, j \in DOMAIN L}

\* C13: with an empty or absent exclusion list the mapping has m*n entries in
\* nested order, grid by grid and within a grid ligand by ligand; with no
\* grids or no ligands it is empty and no error is raised.
C13_FullProductNested ==
    /\ (call.op = "creat_mapping" /\ Exclusion(ledger[call.p]) = {}) => call.err = NoErr
    /\ (Built /\ Exclusion(ledger[call.p]) = {}) =>
          LET G == grid_file_list.val
              L == ligand_file_list.val
              n == Len(L)
          IN  /\ Len(mapping.val) = Len(G) * n
              /\ \A i \in DOMAIN G, j \in DOMAIN L :
                    mapping.val[(i - 1) * n + j] = <<G[i], L[j]>>

\* C13 witness: a full mapping of several grids and several ligands
C13_Witness ==
    /\ Built
    /\ Exclusion(ledger[call.p]) = {}
    /\ Len(grid_file_list.val) >= 2
    /\ Len(ligand_file_list.val) >= 2
    /\ Len(mapping.val) = 4

\* C14: for every exclusion set E the mapping has m*n - |E \cap keys| entries,
\* no entry has its triple in E, and every pair whose triple is not in E is
\* an entry: a record excludes the pair with exactly its triple and no other.
C14_ExactExclusion ==
    Built =>
        LET G == grid_file_list.val
            L == ligand_file_list.val
            E == Exclusion(ledger[call.p])
        IN  /\ Len(mapping.val) = Len(G) * Len(L) - Cardinality(E \cap Keys(G, L))
            /\ \A k \in DOMAIN mapping.val : Triple(mapping.val[k]) \notin E
            /\ \A i \in DOMAIN G, j \in DOMAIN L :
                  Triple(<<G[i], L[j]>>) \notin E => <<G[i], L[j]>> \in Range(mapping.val)

\* C14 witness: an exclusion set with a record of the cross product and a
\* record that agrees with a kept pair on receptor and ligand name only
C14_Witness ==
    /\ Built
    /\ LET G == grid_file_list.val
           L == ligand_file_list.val
           E == Exclusion(ledger[call.p])
       IN  /\ E \cap Keys(G, L) # {}
           /\ \E t \in E \ Keys(G, L) : \E k \in DOMAIN mapping.val :
                 /\ Triple(mapping.val[k])[1] = t[1]
                 /\ Triple(mapping.val[k])[3] = t[3]

\* C15: with no ledger file for p, neither creat_mapping(p) nor
\* multi_extract_data(p) (called after ligand_split, no docking results in
\* memory) raises; the one builds the full cross product, the other the full
\* list of expected result files.
C15_MissingLedgerNoError ==
    (call.op \in {"creat_mapping", "multi_extract_data"} /\ IsNone(ledger[call.p]))
        => /\ call.err = NoErr
           /\ call.op = "creat_mapping" =>
                 Len(mapping.val) = Len(grid_file_list.val) * Len(ligand_file_list.val)
           /\ call.op = "multi_extract_data" =>
                 Len(dock_file_list.val) = Len(pairs_list) * Len(ligand_path_list.val)

----------------------------------------------------------------------------
\* The ledger round trip, checked under LedgerSpec

\* no ligand name holds a comma
NoCommas == \A i \in DOMAIN ligand_path_list.val : Comma \notin Range(ligand_path_list.val[i])

\* C16: after a batch creat_mapping(p); multi_dock(p) in which a non-empty
\* set F of submitted triples (identifiers without commas) got no result, the
\* ledger read back by _get_failed_list(p) is exactly F, and the next
\* creat_mapping(p) yields the previous mapping without the entries whose
\* triple is in F, the others in the same order.
C16_LedgerRoundTrip ==
    [][(/\ Called
        /\ batch.shape = "docked"
        /\ Docked
        /\ Lost # {}
        /\ NoCommas
        /\ call'.op = "creat_mapping"
        /\ call'.p = call.p)
          => LET F == {Triple(mapping.val[i]) : i \in Lost}
                 Kept(item) == Triple(item) \notin F
             IN  /\ call'.err = NoErr
                 /\ Range(_get_failed_list(ledger[call.p]).val) = F
                 /\ mapping'.val = SelectSeq(mapping.val, Kept)]_vars

----------------------------------------------------------------------------
\* Further properties of the runner, checked under RunnerSpec

\* C17: a runner call with a worker count of 0 or less fails at once with an
\* error raised to the caller: no item is submitted or executed and no result
\* list, partial or not, is returned.
C17_InvalidWorkerCount ==
    r_k <= 0 =>
        /\ r_pc \in {"start", "raised"}
        /\ r_pc = "raised" => r_err = ErrValueError
        /\ r_workers = {}
        /\ r_next = 1
        /\ r_taskq = <<>>
        /\ r_outq = <<>>
        /\ r_returns = <<>>
        /\ r_completed = 0

\* C17 witness: a call over some items with a worker count below one has
\* raised
C17_Witness ==
    /\ r_pc = "raised"
    /\ r_k <= 0
    /\ r_items # <<>>

\* C18: the completed-count starts at 0, never decreases, advances by one at
\* a time and once for each item whose operation has ended, whether it
\* returned, raised or timed out, and equals the number of items when the
\* call returns.
C18_CompletedCount ==
    /\ [](r_pc = "start" => r_completed = 0)
    /\ [][r_completed' = r_completed \/ r_completed' = r_completed + 1]_vars
    /\ [](r_pc \in {"submit", "join", "done"} =>
             r_completed = (r_next - 1) - (Len(r_taskq) + Cardinality(Busy) + Len(r_outq)))
    /\ [](r_pc = "done" => r_completed = Len(r_items))

\* C18 witness: a returned call in which one item raised and another timed
\* out
C18_Witness ==
    /\ r_pc = "done"
    /\ r_timeout > 0
    /\ \E i, j \in DOMAIN r_items : r_items[i] = "raise" /\ r_items[j] \in {"slow", "hang"}
    /\ r_completed = 2
    /\ r_returns = <<>>

\* C19: the runner call, and with it the stage method that made it, returns
\* only when every item has been submitted and none is waiting, executing or
\* still to be reported; so nothing of a stage runs once a later stage starts.
C19_ReturnsWhenDrained ==
    r_pc = "done" =>
        /\ r_next = Len(r_items) + 1
        /\ r_taskq = <<>>
        /\ Busy = {}
        /\ r_outq = <<>>

\* C19 witness: a returned call of several workers over several items, one
\* of which ran into the timeout
C19_Witness ==
    /\ r_pc = "done"
    /\ r_k >= 2
    /\ Len(r_items) >= 2
    /\ r_timeout > 0
    /\ \E i \in DOMAIN r_items : r_items[i] = "hang"
    /\ \E i \in DOMAIN r_items : r_items[i] = "ok"

\* C20: NUM_PARALLEL is three quarters of the core count, rounded down.
C20_ThreeQuarters == NUM_PARALLEL = (3 * cpu_count) \div 4

\* C23: download_pdb_list makes one unit per identifier, starts every unit
\* before it waits on any, and returns only when every unit has ended; a unit
\* whose download fails ends alone: every identifier the server answers has its
\* file when the call returns.
C23_DownloadUnits ==
    /\ dl_pc \in {"start", "join", "returned"} => Len(dl_threads) = Len(dl_pdblist)
    /\ dl_pc = "create" => \A t \in DOMAIN dl_threads : dl_threads[t] = "new"
    /\ dl_pc \in {"create", "start"} => dl_joined = 0
    /\ dl_pc \in {"join", "returned"} =>
          \A t \in DOMAIN dl_threads : dl_threads[t] # "new"
    /\ dl_pc = "returned" =>
          /\ dl_joined = Len(dl_pdblist)
          /\ \A t \in DOMAIN dl_threads :
                /\ dl_threads[t] \in {"finished", "raised"}
                /\ dl_threads[t] = "raised" => dl_status[dl_pdblist[t]] # 200
                /\ dl_status[dl_pdblist[t]] = 200 => dl_pdblist[t] \in dl_files

C23_Witness ==
    /\ dl_pc = "returned"
    /\ Len(dl_pdblist) = 2
    /\ dl_threads[1] = "raised"
    /\ dl_threads[2] = "finished"
    /\ dl_overwrite
    /\ dl_pdblist[2] \in dl_files

\* the commas of a ledger line
Commas(line) == Cardinality({i \in DOMAIN line : line[i] = Comma})

\* C21: when the ledger of the precision holds a line that has not exactly
\* three comma-separated fields, creat_mapping raises and leaves the mapping
\* it had before in place.
C21_MalformedLedgerRaises ==
    [][(/\ Called
        /\ call'.op = "creat_mapping"
        /\ ~IsNone(ledger[call'.p])
        /\ \E i \in DOMAIN ledger[call'.p].val : Commas(ledger[call'.p].val[i]) # 2)
       => (call'.err = ErrValueError /\ mapping' = mapping)]_vars

C21_Witness ==
    /\ call.op = "creat_mapping"
    /\ call.err = ErrValueError
    /\ ~IsNone(mapping)
    /\ Len(mapping.val) > 0
    /\ \E i \in DOMAIN ledger[call.p].val : Commas(ledger[call.p].val[i]) = 3

\* C22: the ledgers of the precisions are apart: multi_dock(p) leaves the
\* ledger of every other precision as it was, and the mapping creat_mapping(p)
\* builds leaves out exactly the pairs recorded in the ledger of p, whatever
\* the ledgers of the other precisions hold.
C22_PrecisionIsolated ==
    [][Called =>
        /\ \A q \in Precisions :
              (call'.op # "multi_dock" \/ q # call'.p) => ledger'[q] = ledger[q]
        /\ (call'.op = "creat_mapping" /\ call'.err = NoErr) =>
              LET G == grid_file_list.val
                  L == ligand_file_list'.val
                  lines == LedgerRecords(ledger[call'.p])
              IN  \A i \in DOMAIN G, j \in DOMAIN L :
                     <<G[i], L[j]>> \in Range(mapping'.val)
                        <=> Line(<<G[i], L[j]>>) \notin lines]_vars

\* C22 witness: a mapping built for one precision, short of a pair its own
\* ledger records and holding a pair the other precision's ledger records
C22_Witness ==
    /\ Built
    /\ LedgerRecords(ledger[call.p]) # {}
    /\ Len(mapping.val) < Len(grid_file_list.val) * Len(ligand_file_list.val)
    /\ \E q \in Precisions \ {call.p} : \E k \in DOMAIN mapping.val :
          Line(mapping.val[k]) \in LedgerRecords(ledger[q])

\* C25: every item runs in a worker process that runs no other item, so an
\* alarm gives up the item of its own process only: a job comes back failed
\* only for an item that raises or outlasts the timeout, and an item that
\* ends in time is among the results of the returned call whatever the alarms
\* of the other items did.
C25_OwnWorkerContext ==
    /\ [](\A w \in r_workers, v \in r_workers :
            (w.task # 0 /\ w.task = v.task) => w = v)
    /\ [][\A w \in r_workers, v \in r_workers' :
            (w.task # 0 /\ v.pid = w.pid) => v.task = w.task]_vars
    /\ [](\A n \in DOMAIN r_outq : ~r_outq[n].ok => ~Succeeds(r_outq[n].task))
    /\ [](r_pc = "done" =>
            \A i \in DOMAIN r_items : Succeeds(i) => i \in Range(r_returns))

\* C25 witness: a returned call with a timeout in which one item was given up
\* by its alarm and another item came through
C25_Witness ==
    /\ r_pc = "done"
    /\ r_timeout > 0
    /\ Len(r_items) = 2
    /\ r_items[1] \in {"slow", "hang"}
    /\ Succeeds(2)
    /\ r_returns = <<2>>

\* every entry of the mapping pairs a grid of grid_file_list with a ligand
\* whose path is in ligand_path_list
MappingCurrent ==
    IsNone(mapping) \/
        /\ ~IsNone(grid_file_list)
        /\ ~IsNone(ligand_path_list)
        /\ \A k \in DOMAIN mapping.val :
              /\ mapping.val[k][1] \in Range(grid_file_list.val)
              /\ mapping.val[k][2].ligand_name \in Range(ligand_path_list.val)

\* C26 as stated: after any sequence of stage calls the mapping, when there is
\* one, pairs grids of the current grid_file_list with ligands of the current
\* ligand_path_list.
C26_MappingCurrent == MappingCurrent

\* C26 amended: the mapping a successful creat_mapping leaves pairs grids of
\* the current grid_file_list with ligands of the current ligand_path_list,
\* and it goes on doing so over every call that leaves both lists as they
\* are; a re-call of multi_grid_generate or ligand_split leaves the mapping
\* as it was built.
C26_MappingCurrentUntilRecall ==
    [][/\ (Called /\ call'.op = "creat_mapping" /\ call'.err = NoErr) => MappingCurrent'
       /\ (/\ MappingCurrent
           /\ grid_file_list' = grid_file_list
           /\ ligand_path_list' = ligand_path_list) => MappingCurrent'
       /\ (Called /\ call'.op \in {"multi_grid_generate", "ligand_split"})
             => mapping' = mapping]_vars

\* C26 witness: a mapping of several entries built by a call later than the
\* first pass through the stages
C26_Witness ==
    /\ Built
    /\ ncalls >= 5
    /\ Len(mapping.val) >= 2
    /\ MappingCurrent

\* C27: for every core count of one or more the default worker count is at
\* least one, and a runner call with the default worker count does not end
\* at pool construction with the ValueError of an invalid worker count.
C27_DefaultAtLeastOne ==
    cpu_count >= 1 =>
        /\ NUM_PARALLEL >= 1
        /\ r_k = NUM_PARALLEL => r_pc # "raised"

\* the result files of pairs_list x names in nested order, pair by pair and
\* within a pair name by name
ExpectedAll(names) ==
    LET n == Len(names)
    IN  [k \in 1..(Len(pairs_list) * n) |->
            [pdbid |-> pairs_list[((k - 1) \div n) + 1][1],
             internal_ligand_name |-> pairs_list[((k - 1) \div n) + 1][2],
             docking_ligand_name |-> names[((k - 1) % n) + 1]]]

\* C28: multi_extract_data(p) with no docking results in memory and a ledger
\* file for p submits exactly the result files of pairs_list x split ligand
\* names whose triple is not in the ledger of p, in nested order; when
\* ligand_split never ran it raises 'Please run ligand_split first.' and
\* submits nothing; with docking results in memory it submits those and does
\* not read the ledger.
C28_ExtractSubmits ==
    [][(Called /\ call'.op = "multi_extract_data") =>
        /\ (IsNone(dock_file_list) /\ IsNone(ligand_path_list)) =>
              /\ call'.err = ErrNoLigandSplit
              /\ dock_file_list' = None
        /\ (/\ IsNone(dock_file_list)
            /\ ~IsNone(ligand_path_list)
            /\ ~IsNone(ledger[call'.p])) =>
              LET E == Exclusion(ledger[call'.p])
                  Kept(d) == <<d.pdbid, d.internal_ligand_name, d.docking_ligand_name>> \notin E
              IN  /\ call'.err = NoErr
                  /\ dock_file_list' = Some(SelectSeq(ExpectedAll(ligand_path_list.val), Kept))
        /\ ~IsNone(dock_file_list) =>
              /\ call'.err = NoErr
              /\ dock_file_list' = dock_file_list]_vars

\* C28 witness: the result files rebuilt short of a recorded pair, and then
\* submitted again from memory by a call for the precision without a ledger
C28_Witness ==
    /\ call.op = "multi_extract_data"
    /\ call.err = NoErr
    /\ call.p = "XP"
    /\ IsNone(ledger["XP"])
    /\ ~IsNone(dock_file_list)
    /\ Len(dock_file_list.val) >= 2
    /\ Len(dock_file_list.val) < Len(pairs_list) * Len(ligand_path_list.val)

\* the activity of a structure: the value under the first of the four labels
\* it has, in the order b Activity, b activity, s Activity, s activity
FirstActivity(structure) ==
    IF "b_user_Activity" \in structure.property THEN <<"b_user_Activity">>
    ELSE IF "b_user_activity" \in structure.property THEN <<"b_user_activity">>
    ELSE IF "s_user_Activity" \in structure.property THEN <<"s_user_Activity">>
    ELSE IF "s_user_activity" \in structure.property THEN <<"s_user_activity">>
    ELSE <<>>

\* C24: for every sequence of titles, duplicates included, the names and
\* paths split_ligand makes are pairwise distinct, each the index followed by
\* '-' and the title; the returned list has one path per structure in input
\* order, and label.csv holds one 'name,activity' line per structure in the
\* same order.
C24_SplitNamesDistinct ==
    /\ \A i \in DOMAIN sl_ligand_path_list, j \in DOMAIN sl_ligand_path_list :
          i # j => sl_ligand_path_list[i] # sl_ligand_path_list[j]
    /\ sl_pc = "returned" =>
          /\ Len(sl_ligand_path_list) = Len(sl_structures)
          /\ Len(sl_label_csv.val) = Len(sl_structures)
          /\ \A i \in DOMAIN sl_structures :
                /\ sl_ligand_path_list[i] =
                      <<Digit(i - 1), "-">> \o sl_structures[i].title
                /\ sl_label_csv.val[i] =
                      sl_ligand_path_list[i] \o <<Comma>> \o FirstActivity(sl_structures[i])

\* C24 witness: a returned call over two structures of one title, the second
\* with two activity labels
C24_Witness ==
    /\ sl_pc = "returned"
    /\ Len(sl_structures) = 2
    /\ sl_structures[1].title = sl_structures[2].title
    /\ sl_structures[2].property = {"b_user_activity", "s_user_Activity"}
    /\ Len(sl_label_csv.val) = 2

\* C29: option 4 chosen while option 3 has made no input file logs 'No input
\* file created.', invokes none of optimize, split, grid_generate and run,
\* and raises nothing.
C29_NoInputFileLogged ==
    (vsw_last.flag = "4" /\ (IsNone(vsw_inputfile) \/ Falsy(vsw_inputfile)))
        => /\ vsw_last.log = "No input file created."
           /\ vsw_last.invoked = <<>>
           /\ vsw_last.err = NoErr
           /\ vsw_pc = "menu"

\* C30: the merged flag is true only while the current Dancer is one on which
\* merge was called, so option 8 invokes auc only on such a Dancer.
C30_MergedOnCurrentDancer ==
    /\ dn_merged => (~IsNone(dn_dancer) /\ dn_dancer.val.merge_called)
    /\ "auc" \in Range(dn_last.invoked) => dn_dancer.val.merge_called

====
